---- MODULE Spec2Model ----
(***************************************************************************)
(* Model of the form-state hook useFormHandler (a facade over a Formik     *)
(* instance) and of the field synchronizer: the hook useWithBaseFieldHelper*)
(* with the higher-order component withBaseField, which forwards the       *)
(* change and blur events of an input to the store through two debounced   *)
(* functions.                                                              *)
(*                                                                         *)
(* One store is shared by one synchronizer per field.  Every asynchronous  *)
(* operation is split at its awaits: the part up to the first await runs   *)
(* in the action that starts it, the continuation is an entry of inflight. *)
(* A re-render and the effects it runs are part of the action whose store  *)
(* write causes them.                                                      *)
(***************************************************************************)
EXTENDS Naturals, FiniteSets, Sequences, TLC

(* ------------------------------ bounds -------------------------------- *)

\* User events (change, blur, mount, unmount) plus calls of the store's API
\* in one behaviour.
MaxSteps == 2

(* ----------------------------- constants ------------------------------ *)

\* DemoFormSchema: the fields of the demo form.
Fields == {"name", "lastName"}

\* Raw input values: the empty string and two non-empty strings.
Values == {"", "a", "ab"}

\* props.initialValues of the demo form.
initialValues == [f \in Fields |-> ""]

\* The message of yup.string().required(...).
RequiredMsg == "This field is required"

None == "none"
Undefined == "undefined"

\* Every suspended operation was started by one event or call, so there are
\* never more of them than MaxSteps.
Slots == 1..MaxSteps

(* ------------------------------- state -------------------------------- *)

VARIABLES
  values,                 \* formInstance.values
  errors,                 \* formInstance.errors: a function on the fields in error
  touched,                \* formInstance.touched: the fields whose flag is true
  manualValTriggered,     \* the flag read by fieldState
  valuesIsInitialRef,     \* formInstance.values is the initialValues object itself
  mounted,                \* per field: its synchronizer is mounted
  attached,               \* per field: its synchronizer was given a store (props.formhandler)
  value,                  \* per field: the local input state of the synchronizer
  debouncedHandleChange,  \* per field: the argument of the pending change call, or None
  debouncedBlurChange,    \* per field: the argument of the pending blur call, or None
  windows,                \* the open debounce windows, the one that ends first at the head
  inflight,               \* per slot: an operation suspended at an await, or NoOp
  steps,                  \* events and API calls so far
  lastOp,                 \* history: the step just taken
  trigSinceReset,         \* history: triggerValidation was called after the last resetForm
  pendingTyped            \* history: per field, the last change event not yet propagated

vars == <<values, errors, touched, manualValTriggered, valuesIsInitialRef,
          mounted, attached, value, debouncedHandleChange, debouncedBlurChange,
          windows, inflight, steps, lastOp, trigSinceReset, pendingTyped>>

storeVars == <<values, errors, touched, manualValTriggered, valuesIsInitialRef>>
syncVars == <<mounted, attached, value, debouncedHandleChange, debouncedBlurChange,
              windows>>

(* ------------------------- validation engine -------------------------- *)

EmptyMap == [f \in {} |-> RequiredMsg]

\* validationSchema of the demo form: every field is a required string.
yupValidate(vals) == [f \in {g \in Fields : vals[g] = ""} |-> RequiredMsg]

\* Formik's getIn on a flat object: the entry, or undefined.
getIn(obj, key) == IF key \in DOMAIN obj THEN obj[key] ELSE Undefined

\* Formik's setIn on a flat object: undefined deletes the key, any other
\* value (the empty string too) is stored under it.
setIn(obj, key, val) ==
  IF val = Undefined
    THEN [k \in DOMAIN obj \ {key} |-> obj[k]]
    ELSE [k \in DOMAIN obj \cup {key} |-> IF k = key THEN val ELSE obj[k]]

(* --------------------------- store: reads ----------------------------- *)

\* lodash isEqual on two flat objects of strings.
isEqual(a, b) == a = b

\* Formik's isValid as useFormik computes it when no isInitialValid is given
\* (the hook passes none): the error map is empty, dirty or not.
formikIsValid == DOMAIN errors = {}

\* Variant of formState that passes Formik's isValid on without negating it.
formState_isValidPassedOn ==
  [initialValues |-> initialValues,
   currentState  |-> values,
   isValid       |-> formikIsValid,
   errors        |-> errors,
   hasBeenUpdated |-> ~isEqual(initialValues, values)]

\* Variant of formState whose dirty flag is never raised.
formState_neverUpdated ==
  [initialValues |-> initialValues,
   currentState  |-> values,
   isValid       |-> ~formikIsValid,
   errors        |-> errors,
   hasBeenUpdated |-> FALSE]

formState ==
  [initialValues |-> initialValues,
   currentState  |-> values,
   isValid       |-> ~formikIsValid,
   errors        |-> errors,
   hasBeenUpdated |-> ~isEqual(initialValues, values)]

\* Variant of fieldState without the touched test of the TouchedOnly mode.
fieldState_ignoresTouched(field) ==
  IF ~manualValTriggered
    THEN LET fieldIsInvalid == field \in DOMAIN errors
         IN  [invalid |-> fieldIsInvalid,
              error   |-> IF fieldIsInvalid THEN errors[field] ELSE ""]
    ELSE [invalid |-> field \in DOMAIN errors,
          error   |-> getIn(errors, field)]

\* Variant of fieldState that never reads manualValTriggered.
fieldState_alwaysTouchedOnly(field) ==
  LET fieldIsVisitedAndInvalid == field \in touched /\ field \in DOMAIN errors
  IN  [invalid |-> fieldIsVisitedAndInvalid,
       error   |-> IF fieldIsVisitedAndInvalid THEN errors[field] ELSE ""]

fieldState(field) ==
  IF ~manualValTriggered
    THEN LET fieldIsVisitedAndInvalid == field \in touched /\ field \in DOMAIN errors
         IN  [invalid |-> fieldIsVisitedAndInvalid,
              error   |-> IF fieldIsVisitedAndInvalid THEN errors[field] ELSE ""]
    ELSE [invalid |-> field \in DOMAIN errors,
          error   |-> getIn(errors, field)]

\* Variant of debugMode that passes formState().isValid on without negating it.
debugMode_isValidPassedOn ==
  [initialValues |-> formState.initialValues,
   currentState  |-> formState.currentState,
   isValid       |-> formState.isValid,
   errors        |-> formState.errors,
   hasBeenUpdated |-> formState.hasBeenUpdated]

debugMode ==
  [initialValues |-> formState.initialValues,
   currentState  |-> formState.currentState,
   isValid       |-> ~formState.isValid,
   errors        |-> formState.errors,
   hasBeenUpdated |-> formState.hasBeenUpdated]

\* The disabled prop of the Submit button of the demo form.
SubmitDisabled == formState.isValid

(* --------------------------- store: writes ---------------------------- *)

\* The targets of clearErrors: nothing, a field name, or an error map.
ErrorMaps == UNION {[S -> {RequiredMsg}] : S \in SUBSET Fields}

ClearInputs ==
  {[type |-> "undefined", field |-> None, map |-> EmptyMap]}
  \cup {[type |-> "string", field |-> f, map |-> EmptyMap] : f \in Fields}
  \cup {[type |-> "object", field |-> None, map |-> m] : m \in ErrorMaps}

\* Variant of clearErrors without the final setErrors({}).
clearErrors_targetOnly(errs, input) ==
  LET e1 == IF input.type = "string" THEN setIn(errs, input.field, "") ELSE errs
  IN  IF input.type = "object" THEN input.map ELSE e1

clearErrors(errs, input) ==
  LET e1 == IF input.type = "string" THEN setIn(errs, input.field, "") ELSE errs
      e2 == IF input.type = "object" THEN input.map ELSE e1
      e3 == EmptyMap    \* the final, unconditional setErrors({})
  IN  e3

\* The argument of resetForm when it is given: values for some of the fields.
NextStates == UNION {[S -> Values] : S \in SUBSET Fields}

\* Variant of the merge that spreads the initial values instead of the current ones.
mergeValues_overInitial(currentState, nextState) ==
  [f \in Fields |-> IF f \in DOMAIN nextState THEN nextState[f] ELSE initialValues[f]]

\* { ...currentState, ...nextState }
mergeValues(currentState, nextState) ==
  [f \in Fields |-> IF f \in DOMAIN nextState THEN nextState[f] ELSE currentState[f]]

\* Variant of the reset that leaves the values as they are.
formikResetValues_keeps(vals) == vals

\* formInstance.resetForm(props.initialValues): the argument has no entry
\* "values", so Formik restores its own initial values.
formikResetValues(vals) == initialValues

\* Variant of the setter that flips the flag instead of storing its argument.
setManualValTriggered_toggles(current, next) == ~current

setManualValTriggered(current, next) == next

\* Variant of setFormValue without its touched write.
setFieldTouched_skips(t, field) == t

\* formInstance.setFieldTouched(field, true, false)
setFieldTouched(t, field) == t \cup {field}

(* ------------------------- synchronizer helpers ----------------------- *)

\* Variant of the cleanup in which cancel leaves the pending call in place.
cancel_keepsPending(pending) == pending

\* debounced.cancel(): the pending invocation is dropped.
cancel(pending) == None

\* Variant of debounce that keeps the arguments of the first call of a window.
debounce_keepsFirst(pending, arg) == IF pending = None THEN arg ELSE pending

\* lodash debounce, trailing edge: a call replaces the pending arguments; the
\* one invocation at the end of the window gets the last arguments.
debounce(pending, arg) == arg

\* Variant of setInitialValue without the fallback to props.value.
setInitialValue_withoutFallback(hasStore, vals, field, propsValue) ==
  IF hasStore THEN getIn(vals, field) ELSE Undefined

\* setInitialValue: the value of the field in formState().currentState, or
\* props.value when the synchronizer has no store (props.formhandler is
\* undefined) or the store has no value for the field.
setInitialValue(hasStore, vals, field, propsValue) ==
  IF hasStore /\ getIn(vals, field) # Undefined THEN vals[field] ELSE propsValue

(* ---------------------- suspended operations -------------------------- *)

NoOp == [kind |-> "none", field |-> None, value |-> None, pc |-> None,
         errs |-> EmptyMap, src |-> None, clobbered |-> FALSE]

Op(kind, field, val, errs, src) ==
  [kind |-> kind, field |-> field, value |-> val, pc |-> "validating",
   errs |-> errs, src |-> src, clobbered |-> FALSE]

FreeSlots == {i \in Slots : inflight[i].kind = "none"}

FirstFree == CHOOSE i \in FreeSlots : \A j \in FreeSlots : i <= j

\* A write of the fields in written makes the value carried by a suspended
\* setFormValue of one of these fields out of date.
Clobber(ops, written) ==
  [i \in Slots |->
     IF ops[i].kind = "setFormValue" /\ ops[i].field \in written
       THEN [ops[i] EXCEPT !.clobbered = TRUE]
       ELSE ops[i]]

Last(op, field, val, aux, flag, prev) ==
  [op |-> op, field |-> field, value |-> val, aux |-> aux, flag |-> flag,
   prev |-> prev]

(* --------------------------- debounce windows ------------------------- *)

\* Both debounced functions wait 300 ms after their last call, so the open
\* windows end in the order of their last calls.  A window is <<field, kind>>.
Window(f, kind) == <<f, kind>>

Without(ws, w) == SelectSeq(ws, LAMBDA x : x # w)

\* A call of a debounced function (re)starts its window.
Restart(ws, w) == Append(Without(ws, w), w)

Pending(dhc, dbc, w) ==
  IF w[2] = "change" THEN dhc[w[1]] # None ELSE dbc[w[1]] # None

\* The windows left once the pending calls are dhc and dbc.
StillOpen(ws, dhc, dbc) == SelectSeq(ws, LAMBDA w : Pending(dhc, dbc, w))

(* ------------------- re-render of the synchronizers ------------------- *)

\* useEffect of WithFormHandlerField, whose dependency is the identity of
\* formState().currentState: when the store publishes a new values object,
\* every mounted synchronizer of the store runs its cleanup (both debounced
\* functions are cancelled) and then setInitialValue.  The dependency of a
\* synchronizer without store is undefined for ever, so its effect runs on
\* mount only.  dhc and dbc are the pending calls and ws the windows as the
\* handler that wrote the store left them.
EffectChange(changed, dhc) ==
  IF changed
    THEN [f \in Fields |-> IF mounted[f] /\ attached[f] THEN cancel(dhc[f]) ELSE dhc[f]]
    ELSE dhc

Rerender(newVals, changed, dhc, dbc, ws) ==
  /\ value' = IF changed
                THEN [f \in Fields |->
                        IF mounted[f] /\ attached[f]
                          THEN setInitialValue(TRUE, newVals, f, Undefined)
                          ELSE value[f]]
                ELSE value
  /\ debouncedHandleChange' = EffectChange(changed, dhc)
  /\ debouncedBlurChange' = EffectChange(changed, dbc)
  /\ windows' = StillOpen(ws, EffectChange(changed, dhc), EffectChange(changed, dbc))

(* ------------------------------- Init --------------------------------- *)

\* The state after useFormik and the first effect of every synchronizer of
\* the demo form: both text fields are given the store and no value prop.
\* Whether Formik's first values object is the initial-values object itself
\* or a copy of it depends on the Formik release, so both are initial states.
Init ==
  /\ values = initialValues
  /\ errors = EmptyMap
  /\ touched = {}
  /\ manualValTriggered = FALSE
  /\ valuesIsInitialRef \in BOOLEAN
  /\ mounted = [f \in Fields |-> TRUE]
  /\ attached = [f \in Fields |-> TRUE]
  /\ value = [f \in Fields |-> setInitialValue(TRUE, initialValues, f, Undefined)]
  /\ debouncedHandleChange = [f \in Fields |-> None]
  /\ debouncedBlurChange = [f \in Fields |-> None]
  /\ windows = << >>
  /\ inflight = [i \in Slots |-> NoOp]
  /\ steps = 0
  /\ lastOp = Last("init", None, None, None, FALSE, None)
  /\ trigSinceReset = FALSE
  /\ pendingTyped = [f \in Fields |-> None]

(* ------------------------ synchronizer actions ------------------------ *)

\* Variant of handleChange that writes the value to the store at once
\* instead of waiting for the end of the window.
HandleChange_writesStoreAtOnce(f, v) ==
  /\ steps < MaxSteps
  /\ mounted[f]
  /\ value' = [value EXCEPT ![f] = v]
  /\ values' = [values EXCEPT ![f] = v]
  /\ debouncedHandleChange' =
       [debouncedHandleChange EXCEPT ![f] = debounce(debouncedHandleChange[f], v)]
  /\ windows' = Restart(windows, Window(f, "change"))
  /\ pendingTyped' = [pendingTyped EXCEPT ![f] = v]
  /\ steps' = steps + 1
  /\ lastOp' = Last("handleChange", f, v, None, debouncedHandleChange[f] # None, None)
  /\ UNCHANGED <<errors, touched, manualValTriggered, valuesIsInitialRef, mounted,
                 attached, debouncedBlurChange, inflight, trigSinceReset>>

\* handleChange(e) with e.target.value = v.
HandleChange(f, v) ==
  /\ steps < MaxSteps
  /\ mounted[f]
  /\ value' = [value EXCEPT ![f] = v]
  /\ debouncedHandleChange' =
       [debouncedHandleChange EXCEPT ![f] = debounce(debouncedHandleChange[f], v)]
  /\ windows' = Restart(windows, Window(f, "change"))
  /\ pendingTyped' = [pendingTyped EXCEPT ![f] = v]
  /\ steps' = steps + 1
  /\ lastOp' = Last("handleChange", f, v, None, debouncedHandleChange[f] # None, None)
  /\ UNCHANGED <<storeVars, mounted, attached, debouncedBlurChange, inflight,
                 trigSinceReset>>

\* handleBlur(e) with e.target.value = v; Next draws v as the text the input
\* shows, which a blur does not change.
HandleBlur(f, v) ==
  /\ steps < MaxSteps
  /\ mounted[f]
  /\ value' = [value EXCEPT ![f] = v]
  /\ debouncedBlurChange' =
       [debouncedBlurChange EXCEPT ![f] = debounce(debouncedBlurChange[f], v)]
  /\ windows' = Restart(windows, Window(f, "blur"))
  /\ steps' = steps + 1
  /\ lastOp' = Last("handleBlur", f, v, None, debouncedBlurChange[f] # None, None)
  /\ UNCHANGED <<storeVars, mounted, attached, debouncedHandleChange, inflight,
                 trigSinceReset, pendingTyped>>

\* The part of setFormValue up to its first await, called by a debounced
\* function: Formik's setFieldValue writes the value and starts the
\* validation of the values so written.
setFormValue(f, v, src, dhc, dbc, ws) ==
  LET newVals == [values EXCEPT ![f] = v]
      changed == v # values[f]
  IN  /\ FreeSlots # {}
      /\ values' = newVals
      /\ valuesIsInitialRef' = (valuesIsInitialRef /\ ~changed)
      /\ inflight' = [Clobber(inflight, {f}) EXCEPT
                        ![FirstFree] = Op("setFormValue", f, v, yupValidate(newVals), src)]
      /\ Rerender(newVals, changed, dhc, dbc, ws)
      /\ UNCHANGED <<errors, touched, manualValTriggered, mounted, attached, steps,
                     trigSinceReset>>

\* The invocation of a debounced function of a synchronizer without store:
\* props.formhandler?.setFormValue(...) is undefined, nothing is written and
\* the callback of the caller is all that runs.
callbackOnly(dhc, dbc, ws) ==
  /\ debouncedHandleChange' = dhc
  /\ debouncedBlurChange' = dbc
  /\ windows' = ws
  /\ UNCHANGED <<storeVars, mounted, attached, value, inflight, steps, trigSinceReset>>

\* The change window of f ends: the debounced function is invoked with the
\* last arguments.
DebouncedHandleChange(f) ==
  /\ windows # << >>
  /\ Head(windows) = Window(f, "change")
  /\ IF attached[f]
       THEN /\ setFormValue(f, debouncedHandleChange[f], "change",
                            [debouncedHandleChange EXCEPT ![f] = None],
                            debouncedBlurChange, Tail(windows))
            /\ lastOp' = Last("debouncedHandleChange", f, debouncedHandleChange[f],
                              pendingTyped[f], mounted[f], values[f])
       ELSE /\ callbackOnly([debouncedHandleChange EXCEPT ![f] = None],
                            debouncedBlurChange, Tail(windows))
            /\ lastOp' = Last("callbackOnly", f, debouncedHandleChange[f], "change",
                              mounted[f], None)
  /\ pendingTyped' = [pendingTyped EXCEPT ![f] = None]

\* The blur window of f ends.
DebouncedBlurChange(f) ==
  /\ windows # << >>
  /\ Head(windows) = Window(f, "blur")
  /\ IF attached[f]
       THEN /\ setFormValue(f, debouncedBlurChange[f], "blur", debouncedHandleChange,
                            [debouncedBlurChange EXCEPT ![f] = None], Tail(windows))
            /\ lastOp' = Last("debouncedBlurChange", f, debouncedBlurChange[f], None,
                              mounted[f], values[f])
       ELSE /\ callbackOnly(debouncedHandleChange,
                            [debouncedBlurChange EXCEPT ![f] = None], Tail(windows))
            /\ lastOp' = Last("callbackOnly", f, debouncedBlurChange[f], "blur",
                              mounted[f], None)
  /\ UNCHANGED pendingTyped

\* Variant of the unmount that also abandons the suspended setFormValue
\* calls of the field.
Unmount_abandonsInFlight(f) ==
  LET dhc == [debouncedHandleChange EXCEPT ![f] = cancel(debouncedHandleChange[f])]
      dbc == [debouncedBlurChange EXCEPT ![f] = cancel(debouncedBlurChange[f])]
  IN  /\ steps < MaxSteps
      /\ mounted[f]
      /\ mounted' = [mounted EXCEPT ![f] = FALSE]
      /\ debouncedHandleChange' = dhc
      /\ debouncedBlurChange' = dbc
      /\ windows' = StillOpen(windows, dhc, dbc)
      /\ inflight' = [i \in Slots |->
                        IF inflight[i].kind = "setFormValue" /\ inflight[i].field = f
                          THEN NoOp ELSE inflight[i]]
      /\ pendingTyped' = [pendingTyped EXCEPT ![f] = None]
      /\ steps' = steps + 1
      /\ lastOp' = Last("unmount", f, None, None,
                        debouncedHandleChange[f] # None \/ debouncedBlurChange[f] # None,
                        None)
      /\ UNCHANGED <<storeVars, attached, value, trigSinceReset>>

\* The cleanup of the effect when the component is unmounted.
Unmount(f) ==
  LET dhc == [debouncedHandleChange EXCEPT ![f] = cancel(debouncedHandleChange[f])]
      dbc == [debouncedBlurChange EXCEPT ![f] = cancel(debouncedBlurChange[f])]
  IN  /\ steps < MaxSteps
      /\ mounted[f]
      /\ mounted' = [mounted EXCEPT ![f] = FALSE]
      /\ debouncedHandleChange' = dhc
      /\ debouncedBlurChange' = dbc
      /\ windows' = StillOpen(windows, dhc, dbc)
      /\ pendingTyped' = [pendingTyped EXCEPT ![f] = None]
      /\ steps' = steps + 1
      /\ lastOp' = Last("unmount", f, None, None,
                        debouncedHandleChange[f] # None \/ debouncedBlurChange[f] # None,
                        None)
      /\ UNCHANGED <<storeVars, attached, value, inflight, trigSinceReset>>

\* A new instance of the synchronizer of f is mounted, with the store
\* (hasStore) or without it and with propsValue as its value prop: its effect
\* runs setInitialValue.
Mount(f, hasStore, propsValue) ==
  /\ steps < MaxSteps
  /\ ~mounted[f]
  /\ mounted' = [mounted EXCEPT ![f] = TRUE]
  /\ attached' = [attached EXCEPT ![f] = hasStore]
  /\ value' = [value EXCEPT ![f] = setInitialValue(hasStore, values, f, propsValue)]
  /\ steps' = steps + 1
  /\ lastOp' = Last("mount", f, propsValue, None, hasStore, None)
  /\ UNCHANGED <<storeVars, debouncedHandleChange, debouncedBlurChange, windows,
                 inflight, trigSinceReset, pendingTyped>>

(* ---------------------------- store actions --------------------------- *)

\* Variant of ValidationDone in which a setFormValue writes its value once
\* more when its validation completes.
ValidationDone_writesValueAgain(i) ==
  LET op == inflight[i]
  IN  /\ op.kind # "none"
      /\ op.pc = "validating"
      /\ errors' = IF op.kind = "validateField"
                     THEN setIn(errors, op.field, getIn(op.errs, op.field))
                     ELSE op.errs
      /\ values' = IF op.kind = "setFormValue"
                     THEN [values EXCEPT ![op.field] = op.value]
                     ELSE values
      /\ inflight' = [inflight EXCEPT
                        ![i] = IF op.kind = "setFormValue"
                                 THEN [op EXCEPT !.pc = "touching", !.errs = EmptyMap]
                                 ELSE NoOp]
      /\ lastOp' = IF op.kind = "submit"
                     THEN Last(IF DOMAIN op.errs = {} THEN "onSubmit" ELSE "submitFailure",
                               None, None, None, FALSE, None)
                     ELSE Last("validated", op.field, op.value, op.kind, FALSE, None)
      /\ UNCHANGED <<touched, manualValTriggered, valuesIsInitialRef,
                     syncVars, steps, trigSinceReset, pendingTyped>>

\* The validation awaited by a suspended operation completes and Formik
\* writes its result: the whole error map, or the entry of one field for
\* validateField.  A setFormValue goes on to its touched write; a submit
\* calls the submit callback when the map is empty.
ValidationDone(i) ==
  LET op == inflight[i]
  IN  /\ op.kind # "none"
      /\ op.pc = "validating"
      /\ errors' = IF op.kind = "validateField"
                     THEN setIn(errors, op.field, getIn(op.errs, op.field))
                     ELSE op.errs
      /\ inflight' = [inflight EXCEPT
                        ![i] = IF op.kind = "setFormValue"
                                 THEN [op EXCEPT !.pc = "touching", !.errs = EmptyMap]
                                 ELSE NoOp]
      /\ lastOp' = IF op.kind = "submit"
                     THEN Last(IF DOMAIN op.errs = {} THEN "onSubmit" ELSE "submitFailure",
                               None, None, None, FALSE, None)
                     ELSE Last("validated", op.field, op.value, op.kind, FALSE, None)
      /\ UNCHANGED <<values, touched, manualValTriggered, valuesIsInitialRef,
                     syncVars, steps, trigSinceReset, pendingTyped>>

\* Variant in which a setFormValue catches the error of the validation
\* engine and goes on to its touched write.
ValidationThrows_caught(i) ==
  LET op == inflight[i]
  IN  /\ op.kind # "none"
      /\ op.pc = "validating"
      /\ inflight' = [inflight EXCEPT
                        ![i] = IF op.kind = "setFormValue"
                                 THEN [op EXCEPT !.pc = "touching", !.errs = EmptyMap]
                                 ELSE NoOp]
      /\ lastOp' = Last("rejected", op.field, op.value, op.kind, FALSE, None)
      /\ UNCHANGED <<storeVars, syncVars, steps, trigSinceReset, pendingTyped>>

\* The validation engine throws: the awaiting operation is rejected and
\* nothing after its await runs.
ValidationThrows(i) ==
  LET op == inflight[i]
  IN  /\ op.kind # "none"
      /\ op.pc = "validating"
      /\ inflight' = [inflight EXCEPT ![i] = NoOp]
      /\ lastOp' = Last("rejected", op.field, op.value, op.kind, FALSE, None)
      /\ UNCHANGED <<storeVars, syncVars, steps, trigSinceReset, pendingTyped>>

\* The second await of setFormValue: the field is marked touched, then
\* setFormValue resolves and the debounced function calls the callback of
\* the caller (props.onChange or props.onBlur).
SetFormValueResolve(i) ==
  LET op == inflight[i]
  IN  /\ op.kind = "setFormValue"
      /\ op.pc = "touching"
      /\ touched' = setFieldTouched(touched, op.field)
      /\ inflight' = [inflight EXCEPT ![i] = NoOp]
      /\ lastOp' = Last("setFormValueResolved", op.field, op.value, op.src,
                        op.clobbered, None)
      /\ UNCHANGED <<values, errors, manualValTriggered, valuesIsInitialRef,
                     syncVars, steps, trigSinceReset, pendingTyped>>

Mode(flag) == IF flag THEN "AllErrors" ELSE "TouchedOnly"

\* triggerValidation(input): input is a field name or Undefined.
TriggerValidation(input) ==
  /\ steps < MaxSteps
  /\ FreeSlots # {}
  /\ manualValTriggered' = setManualValTriggered(manualValTriggered, TRUE)
  /\ inflight' = [inflight EXCEPT
                    ![FirstFree] = IF input # Undefined
                                     THEN Op("validateField", input, None,
                                             yupValidate(values), None)
                                     ELSE Op("validateForm", None, None,
                                             yupValidate(values), None)]
  /\ trigSinceReset' = TRUE
  /\ steps' = steps + 1
  /\ lastOp' = Last("triggerValidation", input, None, None, FALSE,
                    Mode(manualValTriggered))
  /\ UNCHANGED <<values, errors, touched, valuesIsInitialRef, syncVars, pendingTyped>>

\* What a reset found: "dirty" when the values differed from the initial
\* ones and errors were stored; for a merge, "keeps" when a field the
\* argument does not name held a value other than its initial one.
ResetCase(given, nextState) ==
  IF given
    THEN IF DOMAIN nextState # {}
            /\ \E f \in Fields \ DOMAIN nextState : values[f] # initialValues[f]
           THEN "keeps" ELSE "other"
    ELSE IF values # initialValues /\ DOMAIN errors # {}
           THEN "dirty" ELSE "clean"

\* Variant of resetForm whose merge path goes on to formInstance.resetForm
\* instead of returning.
ResetForm_fallsThrough(given, nextState) ==
  LET newVals == formikResetValues(mergeValues(formState.currentState, nextState))
      changed == IF given THEN TRUE ELSE ~valuesIsInitialRef
      written == Fields
  IN  /\ steps < MaxSteps
      /\ given => FreeSlots # {}
      /\ errors' = clearErrors(errors, [type |-> "undefined", field |-> None, map |-> EmptyMap])
      /\ manualValTriggered' = setManualValTriggered(manualValTriggered, FALSE)
      /\ values' = newVals
      /\ valuesIsInitialRef' = TRUE
      /\ touched' = {}
      /\ inflight' = IF given
                       THEN [Clobber(inflight, written) EXCEPT
                               ![FirstFree] = Op("validateForm", None, None,
                                                 yupValidate(newVals), None)]
                       ELSE Clobber(inflight, written)
      /\ Rerender(newVals, changed, debouncedHandleChange, debouncedBlurChange, windows)
      /\ pendingTyped' = IF changed
                           THEN [f \in Fields |->
                                   IF mounted[f] /\ attached[f] THEN None
                                                                ELSE pendingTyped[f]]
                           ELSE pendingTyped
      /\ trigSinceReset' = FALSE
      /\ steps' = steps + 1
      /\ lastOp' = Last("resetForm", None, None, ResetCase(given, nextState), given,
                        Mode(manualValTriggered))
      /\ UNCHANGED <<mounted, attached>>

\* Variant of resetForm whose merge path empties the touched set as well.
ResetForm_mergeClearsTouched(given, nextState) ==
  LET newVals == IF given THEN mergeValues(formState.currentState, nextState)
                          ELSE formikResetValues(values)
      changed == IF given THEN TRUE ELSE ~valuesIsInitialRef
      written == IF given THEN DOMAIN nextState ELSE Fields
  IN  /\ steps < MaxSteps
      /\ given => FreeSlots # {}
      /\ errors' = clearErrors(errors, [type |-> "undefined", field |-> None, map |-> EmptyMap])
      /\ manualValTriggered' = setManualValTriggered(manualValTriggered, FALSE)
      /\ values' = newVals
      /\ valuesIsInitialRef' = ~given
      /\ touched' = {}
      /\ inflight' = IF given
                       THEN [Clobber(inflight, written) EXCEPT
                               ![FirstFree] = Op("validateForm", None, None,
                                                 yupValidate(newVals), None)]
                       ELSE Clobber(inflight, written)
      /\ Rerender(newVals, changed, debouncedHandleChange, debouncedBlurChange, windows)
      /\ pendingTyped' = IF changed
                           THEN [f \in Fields |->
                                   IF mounted[f] /\ attached[f] THEN None
                                                                ELSE pendingTyped[f]]
                           ELSE pendingTyped
      /\ trigSinceReset' = FALSE
      /\ steps' = steps + 1
      /\ lastOp' = Last("resetForm", None, None, ResetCase(given, nextState), given,
                        Mode(manualValTriggered))
      /\ UNCHANGED <<mounted, attached>>

\* resetForm(nextState); given is false for a call without argument.
ResetForm(given, nextState) ==
  LET newVals == IF given THEN mergeValues(formState.currentState, nextState)
                          ELSE formikResetValues(values)
      changed == IF given THEN TRUE ELSE ~valuesIsInitialRef
      written == IF given THEN DOMAIN nextState ELSE Fields
  IN  /\ steps < MaxSteps
      /\ given => FreeSlots # {}
      /\ errors' = clearErrors(errors, [type |-> "undefined", field |-> None, map |-> EmptyMap])
      /\ manualValTriggered' = setManualValTriggered(manualValTriggered, FALSE)
      /\ values' = newVals
      /\ valuesIsInitialRef' = ~given
      /\ touched' = IF given THEN touched ELSE {}
      /\ inflight' = IF given
                       THEN [Clobber(inflight, written) EXCEPT
                               ![FirstFree] = Op("validateForm", None, None,
                                                 yupValidate(newVals), None)]
                       ELSE Clobber(inflight, written)
      /\ Rerender(newVals, changed, debouncedHandleChange, debouncedBlurChange, windows)
      /\ pendingTyped' = IF changed
                           THEN [f \in Fields |->
                                   IF mounted[f] /\ attached[f] THEN None
                                                                ELSE pendingTyped[f]]
                           ELSE pendingTyped
      /\ trigSinceReset' = FALSE
      /\ steps' = steps + 1
      /\ lastOp' = Last("resetForm", None, None, ResetCase(given, nextState), given,
                        Mode(manualValTriggered))
      /\ UNCHANGED <<mounted, attached>>

\* clearErrors(input)
ClearErrors(input) ==
  /\ steps < MaxSteps
  /\ errors' = clearErrors(errors, input)
  /\ steps' = steps + 1
  /\ lastOp' = Last("clearErrors", None, None, input.type,
                    DOMAIN errors \ {input.field} # {}, None)
  /\ UNCHANGED <<values, touched, manualValTriggered, valuesIsInitialRef,
                 syncVars, inflight, trigSinceReset, pendingTyped>>

\* onSubmitHandler: Formik's handleSubmit marks every field touched and
\* starts the validation of the current values.
OnSubmitHandler ==
  /\ steps < MaxSteps
  /\ FreeSlots # {}
  /\ touched' = Fields
  /\ inflight' = [inflight EXCEPT
                    ![FirstFree] = Op("submit", None, None, yupValidate(values), None)]
  /\ steps' = steps + 1
  /\ lastOp' = Last("onSubmitHandler", None, None, None, FALSE, None)
  /\ UNCHANGED <<values, errors, manualValTriggered, valuesIsInitialRef,
                 syncVars, trigSinceReset, pendingTyped>>

(* ---------------------------- specification --------------------------- *)

Next ==
  \/ \E f \in Fields, v \in Values : HandleChange(f, v)
  \/ \E f \in Fields : HandleBlur(f, value[f])
  \/ \E f \in Fields : DebouncedHandleChange(f)
  \/ \E f \in Fields : DebouncedBlurChange(f)
  \/ \E f \in Fields : Unmount(f)
  \/ \E f \in Fields : Mount(f, TRUE, Undefined)
  \/ \E f \in Fields, propsValue \in Values : Mount(f, FALSE, propsValue)
  \/ \E i \in Slots : ValidationDone(i)
  \/ \E i \in Slots : ValidationThrows(i)
  \/ \E i \in Slots : SetFormValueResolve(i)
  \/ \E input \in Fields \cup {Undefined} : TriggerValidation(input)
  \/ \E nextState \in NextStates : ResetForm(TRUE, nextState)
  \/ ResetForm(FALSE, EmptyMap)
  \/ \E input \in ClearInputs : ClearErrors(input)
  \/ OnSubmitHandler

Spec == Init /\ [][Next]_vars

(* ------------------------------ claims -------------------------------- *)

Fired == {"debouncedHandleChange", "debouncedBlurChange"}

\* C1: while no triggerValidation was called since construction or since the
\* last resetForm, fieldState(F) reports invalid = false and an empty error
\* for every field F that is not touched, whatever the error map holds.
C1_UntouchedNeverInvalid ==
  ~trigSinceReset =>
    \A f \in Fields :
      f \notin touched => ~fieldState(f).invalid /\ fieldState(f).error = ""

\* The intermediate state of setFormValue: the value and an error of the
\* field are written, its touched flag is not yet.
C1_Witness ==
  /\ ~trigSinceReset
  /\ \E i \in Slots :
       /\ inflight[i].kind = "setFormValue"
       /\ inflight[i].pc = "touching"
       /\ inflight[i].field \notin touched
       /\ inflight[i].field \in DOMAIN errors

\* C2: when setFormValue(F, v) has resolved, F is touched, and the store
\* holds v for F unless another write of F was issued after the call.
C2_ResolvedTouchedAndValue ==
  lastOp.op = "setFormValueResolved" =>
    /\ lastOp.field \in touched
    /\ ~lastOp.flag => values[lastOp.field] = lastOp.value

C2_Witness ==
  /\ lastOp.op = "setFormValueResolved"
  /\ ~lastOp.flag
  /\ lastOp.value # initialValues[lastOp.field]
  /\ values[lastOp.field] = lastOp.value

\* C3: the change events of a mounted synchronizer that arrive within one
\* debounce window end in exactly one propagation, which carries the value
\* of the last event and leaves it in the store: the last event stays
\* pending until its window ends, and the invocation at the end of the window
\* carries it, stores it and leaves no call pending.
C3_OnePropagationWithLastValue ==
  /\ \A f \in Fields :
       mounted[f] /\ pendingTyped[f] # None =>
         debouncedHandleChange[f] = pendingTyped[f]
  /\ lastOp.op = "debouncedHandleChange" =>
       /\ lastOp.value = lastOp.aux
       /\ values[lastOp.field] = lastOp.value
       /\ debouncedHandleChange[lastOp.field] = None

\* C4: an unmounted synchronizer has no pending change or blur call, and no
\* debounced function is ever invoked for an unmounted synchronizer.
C4_NoPropagationAfterUnmount ==
  /\ \A f \in Fields :
       ~mounted[f] =>
         /\ debouncedHandleChange[f] = None
         /\ debouncedBlurChange[f] = None
         /\ \A k \in 1..Len(windows) : windows[k][1] # f
  /\ lastOp.op \in Fired => lastOp.flag

\* A synchronizer was unmounted while a call was pending in its window.
C4_Witness == lastOp.op = "unmount" /\ lastOp.flag

\* C5: from a triggerValidation until the next resetForm the mode is
\* AllErrors and fieldState(F).invalid is exactly "F has an entry in the
\* error map", touched or not.
C5_AllErrorsAfterTrigger ==
  trigSinceReset =>
    /\ manualValTriggered
    /\ \A f \in Fields : fieldState(f).invalid = (f \in DOMAIN errors)

C5_Witness ==
  /\ trigSinceReset
  /\ \E f \in Fields : f \in DOMAIN errors /\ f \notin touched
  /\ \E f \in Fields : f \notin DOMAIN errors

\* C6: resetForm() without argument leaves the values equal to the initial
\* values, the error map empty and the mode TouchedOnly.
C6_ResetRestoresInitial ==
  lastOp.op = "resetForm" /\ ~lastOp.flag =>
    /\ values = initialValues
    /\ DOMAIN errors = {}
    /\ ~manualValTriggered

\* The reset found changed values and stored errors.
C6_Witness == lastOp.op = "resetForm" /\ ~lastOp.flag /\ lastOp.aux = "dirty"

\* C7: resetForm(next) sets the values to the current values overridden
\* field by field by next.
C7_ResetMerges ==
  [][\A nextState \in NextStates :
       ResetForm(TRUE, nextState) =>
         values' = [f \in Fields |->
                      IF f \in DOMAIN nextState THEN nextState[f] ELSE values[f]]]_vars

\* A merge kept a value that differs from the initial one.
C7_Witness ==
  /\ lastOp.op = "resetForm" /\ lastOp.flag /\ lastOp.aux = "keeps"
  /\ \E f \in Fields : values[f] # initialValues[f]

\* C8: after clearErrors, whatever its target, the error map is empty.
C8_ClearErrorsIsGlobal == lastOp.op = "clearErrors" => DOMAIN errors = {}

\* clearErrors(fieldName) was called while another field had an error.
C8_Witness == lastOp.op = "clearErrors" /\ lastOp.aux = "string" /\ lastOp.flag

\* C9 as written: hasBeenUpdated is true after any setFormValue that changes
\* the value of its field.
C9_TrueAfterAnyChange ==
  lastOp.op \in Fired /\ lastOp.value # lastOp.prev => formState.hasBeenUpdated

\* C9: hasBeenUpdated is false after construction, is true after a
\* setFormValue that writes a value other than the initial value of its
\* field, and always equals "the values differ from the initial values".
C9_DirtyFlag ==
  /\ formState.hasBeenUpdated = (values # initialValues)
  /\ lastOp.op = "init" => ~formState.hasBeenUpdated
  /\ lastOp.op \in Fired /\ lastOp.value # initialValues[lastOp.field] =>
       formState.hasBeenUpdated

C9_Witness ==
  /\ lastOp.op \in Fired
  /\ lastOp.value # initialValues[lastOp.field]
  /\ formState.hasBeenUpdated

\* C10: the mode starts as TouchedOnly; it becomes AllErrors only in a
\* triggerValidation step and TouchedOnly only in a resetForm step; every
\* triggerValidation ends in AllErrors and every resetForm in TouchedOnly.
C10_ModeTransitions ==
  /\ ~manualValTriggered
  /\ [][/\ manualValTriggered' # manualValTriggered =>
            \/ manualValTriggered' /\ lastOp'.op = "triggerValidation"
            \/ ~manualValTriggered' /\ lastOp'.op = "resetForm"
        /\ lastOp'.op = "triggerValidation" /\ steps' # steps => manualValTriggered'
        /\ lastOp'.op = "resetForm" /\ steps' # steps => ~manualValTriggered']_vars

\* A reset took the mode from AllErrors back to TouchedOnly.
C10_Witness ==
  lastOp.op = "resetForm" /\ lastOp.prev = "AllErrors" /\ ~manualValTriggered

\* C11: onSubmitHandler calls the submit callback with the current values
\* and does not validate: the step of the call changes neither the error map
\* nor the touched set, no submit ever writes the error map, and no submit
\* ends without calling the callback because the values fail the validation.
C11_SubmitDoesNotValidate ==
  [][/\ OnSubmitHandler => touched' = touched /\ errors' = errors
     /\ lastOp'.op = "onSubmit" => errors' = errors
     /\ lastOp'.op # "submitFailure"]_vars

\* C12: in the state just after construction (no edit, no validation
\* triggered) formState().isValid is false and the Submit button, whose
\* disabled prop is that flag, is enabled.
C12_SubmitEnabledInitially ==
  lastOp.op = "init" => ~formState.isValid /\ ~SubmitDisabled

\* The form as constructed: initial values, no error, nothing touched.
C12_Witness ==
  /\ lastOp.op = "init"
  /\ values = initialValues /\ DOMAIN errors = {} /\ touched = {}
  /\ ~SubmitDisabled

\* The steps in which a suspended operation goes on after an await.
Continued == {"validated", "rejected", "setFormValueResolved", "onSubmit",
              "submitFailure"}

\* C13: the propagations of one field take effect in the order in which
\* their windows ended.  The invocation at the end of a window leaves its
\* value in the store at once; the later steps of a propagation (the end of
\* its validation, its touched write) never write a value, however they
\* interleave with those of another propagation; so the store holds for a
\* field the value of the propagation dispatched last, as long as no other
\* write of the field followed it.
C13_LastWindowWins ==
  /\ [](lastOp.op \in Fired => values[lastOp.field] = lastOp.value)
  /\ [](\A i \in Slots :
          inflight[i].kind = "setFormValue" /\ ~inflight[i].clobbered =>
            values[inflight[i].field] = inflight[i].value)
  /\ [][lastOp'.op \in Continued => values' = values]_vars

\* Two propagations of one field are in flight with different values; the
\* one dispatched last has overtaken the other, whose validation is still
\* to complete, and the store holds the value of the one dispatched last.
C13_Witness ==
  \E i, j \in Slots :
    /\ inflight[i].kind = "setFormValue" /\ inflight[j].kind = "setFormValue"
    /\ inflight[i].field = inflight[j].field
    /\ inflight[i].value # inflight[j].value
    /\ inflight[i].clobbered /\ ~inflight[j].clobbered
    /\ inflight[i].pc = "validating" /\ inflight[j].pc = "touching"
    /\ values[inflight[j].field] = inflight[j].value

\* C14: a field is touched only if a setFormValue of that field was issued
\* before; triggerValidation, clearErrors, resetForm and the submit never
\* add a field to the touched set: a step adds a field F only when it is the
\* touched write of a setFormValue of F.
C14_TouchedOnlyBySetFormValue ==
  [][\A f \in Fields :
       f \in touched' /\ f \notin touched =>
         lastOp'.op = "setFormValueResolved" /\ lastOp'.field = f]_vars

\* The steps that are a change or a blur event of an input.
Events == {"handleChange", "handleBlur"}

\* C15: a change or blur event sets the local value of its synchronizer to
\* the raw value at once and leaves the store as it is: values, error map
\* and touched set are unchanged and no store operation is started.  The
\* store is written at the end of the window: that step starts the
\* setFormValue of the value that was pending, and the callback of the
\* caller follows when that setFormValue resolves.
C15_EventIsLocal ==
  [][/\ lastOp'.op \in Events =>
          /\ value'[lastOp'.field] = lastOp'.value
          /\ UNCHANGED storeVars
          /\ inflight' = inflight
     /\ lastOp'.op = "debouncedHandleChange" =>
          /\ lastOp'.value = debouncedHandleChange[lastOp'.field]
          /\ values'[lastOp'.field] = lastOp'.value
          /\ \E i \in Slots :
               /\ inflight[i] = NoOp
               /\ inflight'[i] = Op("setFormValue", lastOp'.field, lastOp'.value,
                                    yupValidate(values'), "change")
     /\ lastOp'.op = "debouncedBlurChange" =>
          /\ lastOp'.value = debouncedBlurChange[lastOp'.field]
          /\ values'[lastOp'.field] = lastOp'.value
          /\ \E i \in Slots :
               /\ inflight[i] = NoOp
               /\ inflight'[i] = Op("setFormValue", lastOp'.field, lastOp'.value,
                                    yupValidate(values'), "blur")]_vars

\* A change event has just been handled: the input shows the new value, the
\* store still holds the old one, and the touched set and the error map
\* that an earlier propagation left are in place.
C15_Witness ==
  /\ lastOp.op = "handleChange"
  /\ value[lastOp.field] = lastOp.value
  /\ values[lastOp.field] # lastOp.value
  /\ debouncedHandleChange[lastOp.field] = lastOp.value
  /\ touched # {} /\ DOMAIN errors # {}

\* C16: the change and the blur timer of one synchronizer are independent.
\* A blur event leaves the pending change calls and the order of the other
\* windows as they are, a change event does the same for the blur calls, and
\* every event replaces the pending arguments of its own timer by its value,
\* so that repeated blur events of one window are one pending call with the
\* last value.  That call stays pending, while its synchronizer is mounted
\* and the form is not reset, until its own window ends in the one blur
\* propagation, which carries the value.
C16_TimersIndependent ==
  [][/\ lastOp'.op = "handleBlur" =>
          /\ debouncedHandleChange' = debouncedHandleChange
          /\ Without(windows', Window(lastOp'.field, "blur"))
               = Without(windows, Window(lastOp'.field, "blur"))
          /\ debouncedBlurChange'[lastOp'.field] = lastOp'.value
     /\ lastOp'.op = "handleChange" =>
          /\ debouncedBlurChange' = debouncedBlurChange
          /\ Without(windows', Window(lastOp'.field, "change"))
               = Without(windows, Window(lastOp'.field, "change"))
          /\ debouncedHandleChange'[lastOp'.field] = lastOp'.value
     /\ \A f \in Fields :
          debouncedBlurChange[f] # None /\ mounted'[f] /\ lastOp'.op # "resetForm" =>
            \/ debouncedBlurChange'[f] # None
            \/ /\ lastOp'.op = "debouncedBlurChange"
               /\ lastOp'.field = f
               /\ lastOp'.value = debouncedBlurChange[f]]_vars

\* C17: the effect of a synchronizer sets its local value on mount, to the
\* store's value for its field when it has a store and to its value prop
\* when it has none; and whenever a resetForm, with or without argument,
\* changes the store's value for the field of a mounted synchronizer of the
\* store, the local value is set to the new store value in the same step.
C17_LocalValueResynchronized ==
  /\ [](lastOp.op = "init" => \A f \in Fields : value[f] = values[f])
  /\ [](lastOp.op = "mount" =>
          value[lastOp.field] = IF lastOp.flag THEN values[lastOp.field]
                                               ELSE lastOp.value)
  /\ [][lastOp'.op = "resetForm" =>
          \A f \in Fields :
            mounted[f] /\ attached[f] /\ values'[f] # values[f] =>
              value'[f] = values'[f]]_vars

\* A synchronizer without store has just been mounted with a value prop
\* other than the value the store holds for the field.
C17_Witness ==
  /\ lastOp.op = "mount" /\ ~lastOp.flag
  /\ mounted[lastOp.field] /\ ~attached[lastOp.field]
  /\ value[lastOp.field] = lastOp.value
  /\ lastOp.value # values[lastOp.field]

\* C18: the teardown of a synchronizer leaves the store and the suspended
\* setFormValue calls as they are, so a call that was dispatched before goes
\* on: when it resolves the field is touched and, unless another write of
\* the field followed, the store holds its value.  The local value of a
\* synchronizer that is torn down is never written again.
C18_InFlightSurvivesTeardown ==
  /\ [][lastOp'.op = "unmount" => inflight' = inflight /\ UNCHANGED storeVars]_vars
  /\ [](lastOp.op = "setFormValueResolved" /\ ~mounted[lastOp.field] =>
          /\ lastOp.field \in touched
          /\ ~lastOp.flag => values[lastOp.field] = lastOp.value)
  /\ [][\A f \in Fields : ~mounted[f] /\ ~mounted'[f] => value'[f] = value[f]]_vars

\* A setFormValue has resolved after the teardown of the synchronizer that
\* dispatched it: the store holds its value and the field is touched.
C18_Witness ==
  /\ lastOp.op = "setFormValueResolved" /\ ~lastOp.flag
  /\ ~mounted[lastOp.field]
  /\ lastOp.value # initialValues[lastOp.field]
  /\ values[lastOp.field] = lastOp.value
  /\ lastOp.field \in touched

\* C19: when resetForm(next) returns, the error map is empty and the mode is
\* TouchedOnly, as after resetForm(); and the merge path does not restore
\* the initial values: a field that next does not name keeps the value it
\* held, so the values differ from the initial ones whenever such a field
\* held another value.
C19_MergeResetClearsAndKeeps ==
  lastOp.op = "resetForm" /\ lastOp.flag =>
    /\ DOMAIN errors = {}
    /\ ~manualValTriggered
    /\ lastOp.aux = "keeps" => values # initialValues

\* resetForm(next) was called in the mode AllErrors: the mode is TouchedOnly
\* again, the error map is empty, and the validation of the merged values
\* that setValues started is still to complete.
C19_Witness ==
  /\ lastOp.op = "resetForm" /\ lastOp.flag /\ lastOp.prev = "AllErrors"
  /\ DOMAIN errors = {} /\ ~manualValTriggered
  /\ \E i \in Slots :
       /\ inflight[i].kind = "validateForm"
       /\ inflight[i].errs = yupValidate(values)
       /\ DOMAIN inflight[i].errs # {}

\* C20: when the validation engine throws during the setFieldValue of a
\* propagation, the propagation ends there.  The step of the rejection
\* writes nothing, neither to the store (the field is not marked touched)
\* nor to a synchronizer (no call is scheduled again), and it removes the
\* suspended setFormValue, so that neither its touched write nor the
\* callback of the caller, which follow a resolved setFormValue only, can
\* ever run for it.
C20_RejectedPropagationEnds ==
  [][lastOp'.op = "rejected" /\ lastOp'.aux = "setFormValue" =>
       /\ UNCHANGED <<storeVars, syncVars>>
       /\ \E i \in Slots :
            /\ inflight[i].kind = "setFormValue"
            /\ inflight[i].pc = "validating"
            /\ inflight[i].field = lastOp'.field
            /\ inflight' = [inflight EXCEPT ![i] = NoOp]]_vars

\* The only propagation so far was rejected: the store holds its value, the
\* field is not touched and nothing is left in flight or pending.
C20_Witness ==
  /\ lastOp.op = "rejected" /\ lastOp.aux = "setFormValue"
  /\ values[lastOp.field] = lastOp.value
  /\ lastOp.value # initialValues[lastOp.field]
  /\ lastOp.field \notin touched
  /\ \A i \in Slots : inflight[i] = NoOp
  /\ windows = << >>

\* C21: a pending propagation of a synchronizer is cancelled by the teardown
\* of that synchronizer only.  With two mounted synchronizers on the store,
\* the step in which a window of one field ends and its value is written to
\* the store leaves the pending change and blur calls of the other field,
\* with their values, as they are.
C21_OnlyOwnTeardownCancels ==
  [][lastOp'.op \in Fired =>
       \A f \in Fields \ {lastOp'.field} :
         mounted[f] /\ mounted'[f] =>
           /\ debouncedHandleChange'[f] = debouncedHandleChange[f]
           /\ debouncedBlurChange'[f] = debouncedBlurChange[f]]_vars

\* The store is at rest: no window is open and no operation is suspended.
Drained == windows = << >> /\ \A i \in Slots : inflight[i] = NoOp

\* C22: the local value of a mounted synchronizer changes only in a change
\* or blur event of its own field or in a step that changes the store's
\* value for its field, never through a store write of another field (the
\* steps of resetForm, which resynchronizes every field, are left aside);
\* and when the store is at rest the local value of every mounted
\* synchronizer of the store equals the store's value for its field.
C22_LocalValueNotOverwritten ==
  /\ [][\A f \in Fields :
          mounted[f] /\ mounted'[f] /\ value'[f] # value[f]
            /\ lastOp'.op # "resetForm" =>
            \/ lastOp'.op \in Events /\ lastOp'.field = f
            \/ values'[f] # values[f]]_vars
  /\ [](Drained =>
          \A f \in Fields : mounted[f] /\ attached[f] => value[f] = values[f])

\* C23: in every state the Submit button is disabled exactly when the error
\* map is not empty; formState().isValid, its disabled prop, is the negation
\* of Formik's isValid, and debugMode().isValid is the negation of
\* formState().isValid.
C23_SubmitDisabledIffErrors ==
  /\ SubmitDisabled = (DOMAIN errors # {})
  /\ formState.isValid = ~formikIsValid
  /\ debugMode.isValid = ~formState.isValid
  /\ debugMode.isValid = (DOMAIN errors = {})

\* Errors are stored while the values are still the initial ones (a
\* triggerValidation on the untouched form): the button is disabled.
C23_Witness ==
  /\ DOMAIN errors # {}
  /\ values = initialValues /\ touched = {}
  /\ SubmitDisabled /\ ~debugMode.isValid

\* C24: resetForm() empties the touched set and resetForm(next) leaves it as
\* it is.  In the mode TouchedOnly a touched field is reported invalid
\* exactly when the error map has an entry for it, so after a merge reset a
\* field that was touched before shows the error of its merged value as soon
\* as the validation that the reset started has written it.
C24_MergeResetKeepsTouched ==
  /\ [][lastOp'.op = "resetForm" =>
          touched' = IF lastOp'.flag THEN touched ELSE {}]_vars
  /\ [](~manualValTriggered =>
          \A f \in touched :
            /\ fieldState(f).invalid = (f \in DOMAIN errors)
            /\ f \in DOMAIN errors => fieldState(f).error = errors[f])

\* resetForm(next) has just returned: a field that was touched before is
\* still touched, its merged value is empty, and the validation that the
\* reset started, which is still to complete, carries the error of the
\* field; the mode is TouchedOnly.
C24_Witness ==
  /\ lastOp.op = "resetForm" /\ lastOp.flag
  /\ ~manualValTriggered
  /\ \E f \in touched :
       /\ values[f] = ""
       /\ ~fieldState(f).invalid
       /\ \E i \in Slots :
            /\ inflight[i].kind = "validateForm"
            /\ inflight[i].errs = yupValidate(values)
            /\ f \in DOMAIN inflight[i].errs

====
